---- MODULE Spec2Model ----
(***************************************************************************)
(* Model of the ONNX Runtime wrapper (onnx_wrapper.c): the process-wide    *)
(* environment (g_ort, g_env, g_error_msg), the OnnxSession lifecycle and  *)
(* the three inference calls.  Every wrapper function is an operator that  *)
(* maps a world record w (the C-visible state plus the log of backend      *)
(* calls made so far by the running call) to the world after the call.     *)
(* The backend (ONNX Runtime) is an opaque collaborator: which of its API  *)
(* calls fail, and what the graph computes, are inputs of each action.     *)
(***************************************************************************)
EXTENDS Integers, Sequences, FiniteSets, TLC

VARIABLES
    g_ort,        \* const OrtApi* g_ort: NULL or the API table
    g_env,        \* OrtEnv* g_env: NULL or the environment handle
    g_error_msg,  \* char g_error_msg[256]
    sess,         \* the OnnxSession structs, by handle
    live,         \* ledger: number of live backend/heap objects per (kind, handle)
    mem,          \* caller-owned float buffers (recurrent state vectors)
    op,           \* name of the wrapper function called last
    args,         \* the inputs of that call
    ret,          \* its return value
    trace,        \* the backend/heap calls it made, in order
    obs,          \* what it read and wrote in caller buffers
    pre,          \* g_ort and g_env as they were before it
    prev,         \* how the call before it ended
    crashed,      \* the process died in that call (memory error)
    thr,          \* the calling threads: where each is inside its call, the lock
    copycall      \* the copy helper called last: its buffers, sizes and result

vars == <<g_ort, g_env, g_error_msg, sess, live, mem, op, args, ret, trace, obs, pre,
          prev, crashed, thr, copycall>>

----------------------------------------------------------------------------
\* Bounds of the model
MaxSessions == 2    \* handles calloc can hand out
MaxFaults == 2      \* backend calls that fail within one wrapper call
MaxEnvs == 3        \* environment objects alive at once before calls stop
MaxCount == 4       \* elements, rows and columns a copy helper is asked to copy
MaxPad == 2         \* padding columns per row; strides go one beyond
MaxDim == 6         \* largest dimension the runtime reports for an output
IntBits == 4        \* width of int (scaled down from 32)
SizeBits == 8       \* width of size_t (scaled down from 64)

\* Program constants
NULL == 0
OrtApi == 1
OrtEnvHandle == 1
StateLen == 128
CombinedLen == 256
EmbeddingLen == 512
FloatSize == 4

Handles == 1..MaxSessions

\* Error strings of the wrapper and of the backend
MSG_NO_API == "Failed to get ONNX Runtime API"
MSG_NOT_INIT == "ONNX Runtime not initialized"
MSG_ALLOC == "Memory allocation failed"
MSG_INVALID == "Invalid session"
MSG_TOO_SMALL == "Output buffer too small"
MSG_UNKNOWN == "Unknown ONNX error"
NO_MESSAGE == "(null message)"
NO_STATUS == "(null status)"

\* OrtStatus* returned by backend call api: NULL when the call succeeds,
\* otherwise a status object carrying (possibly no) message.
StatusOf(api, faults, nomsg) ==
    IF api \in faults
    THEN (IF nomsg THEN NO_MESSAGE ELSE "ORT: " \o api \o " failed")
    ELSE NO_STATUS

----------------------------------------------------------------------------
\* Sequencing.  Bind evaluates e once and hands its value to F; Then does so
\* unless the call has already returned (w.done).
Bind(e, F(_)) == CHOOSE r \in {F(x) : x \in {e}} : TRUE
Then(e, F(_)) == Bind(e, LAMBDA x : IF x.done THEN x ELSE F(x))

\* The log of backend and heap calls of the running call
Ev(w, api, obj, h) == [w EXCEPT !.trace = Append(@, <<api, obj, h>>)]

\* Ledger updates for objects that outlive a call
Born(w, kind, h) == [w EXCEPT !.live[<<kind, h>>] = @ + 1]
Gone(w, kind, h) == [w EXCEPT !.live[<<kind, h>>] = @ - 1]

\* return v;
Return(w, v) == [w EXCEPT !.ret = v, !.done = TRUE]

\* static void set_error(const char* msg)
set_error(w, msg) ==
    [w EXCEPT !.g_error_msg = msg, !.trace = Append(@, <<"set_error", msg, 0>>)]

\* static void set_ort_error(OrtStatus* status)
set_ort_error(w, status) ==
    Bind(w, LAMBDA x :
        IF status # NO_STATUS /\ x.g_ort # NULL
        THEN Ev(set_error(Ev(x, "GetErrorMessage", "status", 0),
                          IF status # NO_MESSAGE THEN status ELSE MSG_UNKNOWN),
                "ReleaseStatus", "status", 0)
        ELSE x)

----------------------------------------------------------------------------
\* int onnx_init(void)
InitFaults == {"GetApi", "CreateEnv"}

\* line 43-47: g_ort = OrtGetApiBase()->GetApi(ORT_API_VERSION)
InitGetApi(w) ==
    IF "GetApi" \in w.faults
    THEN Return(set_error(Ev([w EXCEPT !.g_ort = NULL], "GetApi", "api", 0), MSG_NO_API), -1)
    ELSE Ev([w EXCEPT !.g_ort = OrtApi], "GetApi", "api", 0)

\* the failure path without g_ort = NULL
InitCreateEnv_keeps_api(w) ==
    IF "CreateEnv" \in w.faults
    THEN Bind(set_ort_error(Ev(w, "CreateEnv", "Env", 0),
                            StatusOf("CreateEnv", w.faults, w.nomsg)),
              LAMBDA x : Return(x, -1))
    ELSE Return(Born(Ev([w EXCEPT !.g_env = OrtEnvHandle], "CreateEnv", "Env", 0), "Env", 0), 0)

\* the environment created into a local instead of g_env
InitCreateEnv_drops_env(w) ==
    IF "CreateEnv" \in w.faults
    THEN Bind(set_ort_error(Ev(w, "CreateEnv", "Env", 0),
                            StatusOf("CreateEnv", w.faults, w.nomsg)),
              LAMBDA x : Return([x EXCEPT !.g_ort = NULL], -1))
    ELSE Return(Born(Ev(w, "CreateEnv", "Env", 0), "Env", 0), 0)

\* lines 49-56: CreateEnv into g_env
InitCreateEnv(w) ==
    IF "CreateEnv" \in w.faults
    THEN Bind(set_ort_error(Ev(w, "CreateEnv", "Env", 0),
                            StatusOf("CreateEnv", w.faults, w.nomsg)),
              LAMBDA x : Return([x EXCEPT !.g_ort = NULL], -1))
    ELSE Return(Born(Ev([w EXCEPT !.g_env = OrtEnvHandle], "CreateEnv", "Env", 0), "Env", 0), 0)

\* without the already-initialized test
onnx_init_unguarded(w) == Then(InitGetApi(w), InitCreateEnv)

onnx_init(w) ==
    IF w.g_ort # NULL THEN Return(w, 0)
    ELSE Then(InitGetApi(w), InitCreateEnv)

\* the environment released but the API table pointer kept
onnx_cleanup_keeps_api(w) ==
    Return([(IF w.g_env # NULL /\ w.g_ort # NULL
             THEN Gone(Ev(w, "ReleaseEnv", "Env", 0), "Env", 0)
             ELSE w) EXCEPT !.g_env = NULL], 0)

\* void onnx_cleanup(void)
onnx_cleanup(w) ==
    Return([(IF w.g_env # NULL /\ w.g_ort # NULL
             THEN Gone(Ev(w, "ReleaseEnv", "Env", 0), "Env", 0)
             ELSE w) EXCEPT !.g_env = NULL, !.g_ort = NULL], 0)

----------------------------------------------------------------------------
\* struct OnnxSession, as calloc leaves it (all fields zero)
ZeroSession ==
    [alloc |-> "unused", session |-> NULL, options |-> NULL, allocator |-> NULL,
     input_names |-> NULL, output_names |-> NULL,
     in_name |-> <<>>, out_name |-> <<>>,
     num_inputs |-> 0, num_outputs |-> 0]

\* The model files a caller may name: whether CreateSession can load the file
\* and how many inputs and outputs its graph declares
ModelPaths == {"silero_vad.onnx", "asr.onnx", "noio.onnx", "missing.onnx"}
Loadable(model_path) == model_path # "missing.onnx"
GraphInputs(model_path) ==
    IF model_path = "silero_vad.onnx" THEN 3 ELSE IF model_path = "noio.onnx" THEN 0 ELSE 1
GraphOutputs(model_path) ==
    IF model_path = "silero_vad.onnx" THEN 2 ELSE IF model_path = "noio.onnx" THEN 0 ELSE 1

CreateFaults ==
    {"calloc", "CreateSessionOptions", "AppendExecutionProvider_CoreML",
     "GetAllocatorWithDefaultOptions", "SessionGetInputCount", "SessionGetOutputCount",
     "SessionGetInputName", "SessionGetOutputName"}

\* free(sess) on a failure path of onnx_create_session
FreeStruct(w, h) ==
    Gone(Ev([w EXCEPT !.sess[h] = ZeroSession], "free", "OnnxSession", h), "Struct", h)

\* lines 73-77: calloc(1, sizeof(OnnxSession)); h is the block it hands out
CreateAlloc(w, h) ==
    IF "calloc" \in w.faults
    THEN Return(set_error(Ev(w, "calloc", "OnnxSession", h), MSG_ALLOC), NULL)
    ELSE Born(Ev([w EXCEPT !.sess[h] = [ZeroSession EXCEPT !.alloc = "live"]],
                 "calloc", "OnnxSession", h), "Struct", h)

\* lines 79-92: session options and their configuration
CreateOptions(w, h) ==
    IF "CreateSessionOptions" \in w.faults
    THEN Return(FreeStruct(set_ort_error(Ev(w, "CreateSessionOptions", "Options", h),
                    StatusOf("CreateSessionOptions", w.faults, w.nomsg)), h), NULL)
    ELSE Ev(Ev(Ev(Born(Ev([w EXCEPT !.sess[h].options = 1],
                          "CreateSessionOptions", "Options", h), "Options", h),
                  "SetSessionGraphOptimizationLevel", "Options", h),
               "SetIntraOpNumThreads", "Options", h),
            "SetInterOpNumThreads", "Options", h)

\* the attachment failure reported like the other failures of this function
AppendCoreML_sets_error(w, h) ==
    IF "AppendExecutionProvider_CoreML" \in w.faults
    THEN set_ort_error(Ev(w, "AppendExecutionProvider_CoreML", "Options", h),
                       StatusOf("AppendExecutionProvider_CoreML", w.faults, w.nomsg))
    ELSE Ev(w, "AppendExecutionProvider_CoreML", "Options", h)

\* lines 94-105: attaching the CoreML execution provider; failure is not fatal
AppendCoreML(w, h) ==
    IF "AppendExecutionProvider_CoreML" \in w.faults
    THEN Ev(Ev(Ev(w, "AppendExecutionProvider_CoreML", "Options", h),
               "GetErrorMessage", "status", 0), "ReleaseStatus", "status", 0)
    ELSE Ev(w, "AppendExecutionProvider_CoreML", "Options", h)

\* the failure path tearing the environment down instead of the options
LoadModel_releases_env(w, h, model_path) ==
    IF ~Loadable(model_path)
    THEN Return(FreeStruct(Gone(Ev(
                    [set_ort_error(Ev(w, "CreateSession", "Session", h),
                                   StatusOf("CreateSession", {"CreateSession"}, w.nomsg))
                     EXCEPT !.g_env = NULL],
                    "ReleaseEnv", "Env", 0), "Env", 0), h), NULL)
    ELSE Born(Ev([w EXCEPT !.sess[h].session = 1], "CreateSession", "Session", h),
              "Session", h)

\* lines 107-114: CreateSession and its failure path
LoadModel(w, h, model_path) ==
    IF ~Loadable(model_path)
    THEN Return(FreeStruct(Gone(Ev(
                    set_ort_error(Ev(w, "CreateSession", "Session", h),
                                  StatusOf("CreateSession", {"CreateSession"}, w.nomsg)),
                    "ReleaseSessionOptions", "Options", h), "Options", h), h), NULL)
    ELSE Born(Ev([w EXCEPT !.sess[h].session = 1], "CreateSession", "Session", h),
              "Session", h)

\* the failure path without ReleaseSession
GetAllocator_leaks_session(w, h) ==
    IF "GetAllocatorWithDefaultOptions" \in w.faults
    THEN Return(FreeStruct(
                    Gone(Ev(
                        set_ort_error(Ev(w, "GetAllocatorWithDefaultOptions", "allocator", h),
                            StatusOf("GetAllocatorWithDefaultOptions", w.faults, w.nomsg)),
                        "ReleaseSessionOptions", "Options", h), "Options", h), h), NULL)
    ELSE Ev([w EXCEPT !.sess[h].allocator = 1], "GetAllocatorWithDefaultOptions", "allocator", h)

\* lines 116-124: the default allocator and its failure path
GetAllocator(w, h) ==
    IF "GetAllocatorWithDefaultOptions" \in w.faults
    THEN Return(FreeStruct(
                    Gone(Ev(Gone(Ev(
                        set_ort_error(Ev(w, "GetAllocatorWithDefaultOptions", "allocator", h),
                            StatusOf("GetAllocatorWithDefaultOptions", w.faults, w.nomsg)),
                        "ReleaseSession", "Session", h), "Session", h),
                        "ReleaseSessionOptions", "Options", h), "Options", h), h), NULL)
    ELSE Ev([w EXCEPT !.sess[h].allocator = 1], "GetAllocatorWithDefaultOptions", "allocator", h)

\* lines 126-131: the counts and the two calloc'ed name arrays;
\* calloc(0, size) returns NULL or a zero-length block
Counts(w, h, model_path, zeroNull) ==
    LET nin == IF "SessionGetInputCount" \in w.faults THEN 0 ELSE GraphInputs(model_path)
        nout == IF "SessionGetOutputCount" \in w.faults THEN 0 ELSE GraphOutputs(model_path)
        inArr == IF nin = 0 /\ zeroNull THEN NULL ELSE 1
        outArr == IF nout = 0 /\ zeroNull THEN NULL ELSE 1
        x == Ev(Ev(Ev(Ev(w, "SessionGetInputCount", "Session", h),
                      "SessionGetOutputCount", "Session", h),
                   "calloc", "InArr", h), "calloc", "OutArr", h)
    IN  [x EXCEPT !.sess[h].num_inputs = nin, !.sess[h].num_outputs = nout,
                  !.sess[h].input_names = inArr, !.sess[h].output_names = outArr,
                  !.sess[h].in_name = [i \in 1..nin |-> NULL],
                  !.sess[h].out_name = [i \in 1..nout |-> NULL],
                  !.live[<<"InArr", h>>] = @ + (IF inArr # NULL THEN 1 ELSE 0),
                  !.live[<<"OutArr", h>>] = @ + (IF outArr # NULL THEN 1 ELSE 0)]

\* lines 133-138: one SessionGetInputName / SessionGetOutputName per declared name;
\* a failing call leaves the (calloc-zeroed) entry NULL
GetName(w, h, api, kind, i) ==
    IF api \in w.faults THEN Ev(w, api, kind, h)
    ELSE IF kind = "InName"
    THEN Born(Ev([w EXCEPT !.sess[h].in_name[i] = 1], api, kind, h), kind, h)
    ELSE Born(Ev([w EXCEPT !.sess[h].out_name[i] = 1], api, kind, h), kind, h)

RECURSIVE GetNames(_, _, _, _, _, _)
GetNames(w, h, api, kind, i, n) ==
    IF i > n THEN w
    ELSE Bind(w, LAMBDA x : GetNames(GetName(x, h, api, kind, i), h, api, kind, i + 1, n))

Introspect(w, h, model_path, zeroNull) ==
    Bind(Counts(w, h, model_path, zeroNull), LAMBDA x :
        GetNames(GetNames(x, h, "SessionGetInputName", "InName", 1, x.sess[h].num_inputs),
                 h, "SessionGetOutputName", "OutName", 1, x.sess[h].num_outputs))

\* OnnxSession* onnx_create_session(const char* model_path)
onnx_create_session(w, h, model_path, zeroNull) ==
    IF w.g_ort = NULL \/ w.g_env = NULL
    THEN Return(set_error(w, MSG_NOT_INIT), NULL)
    ELSE Then(Then(Then(Then(Then(CreateAlloc(w, h),
                                  LAMBDA x : CreateOptions(x, h)),
                             LAMBDA x : AppendCoreML(x, h)),
                        LAMBDA x : LoadModel(x, h, model_path)),
                   LAMBDA x : GetAllocator(x, h)),
              LAMBDA x : Return(Introspect(x, h, model_path, zeroNull), h))

\* lines 146-162: the names, each through the runtime allocator, then the array
FreeName(w, h, kind, name) ==
    IF name # NULL /\ w.sess[h].allocator # NULL
    THEN Gone(Ev(w, "allocator->Free", kind, h), kind, h)
    ELSE w

RECURSIVE FreeNames(_, _, _, _, _)
FreeNames(w, h, kind, names, i) ==
    IF i > Len(names) THEN w
    ELSE Bind(w, LAMBDA x : FreeNames(FreeName(x, h, kind, names[i]), h, kind, names, i + 1))

\* the input names walked and the array freed without looking at the array pointer
DestroyInputNames_unguarded(w, h) ==
    Gone(Ev(FreeNames(w, h, "InName", w.sess[h].in_name, 1), "free", "InArr", h),
         "InArr", h)

DestroyInputNames(w, h) ==
    IF w.sess[h].input_names # NULL
    THEN Gone(Ev(FreeNames(w, h, "InName", w.sess[h].in_name, 1), "free", "InArr", h),
              "InArr", h)
    ELSE w

DestroyOutputNames(w, h) ==
    IF w.sess[h].output_names # NULL
    THEN Gone(Ev(FreeNames(w, h, "OutName", w.sess[h].out_name, 1), "free", "OutArr", h),
              "OutArr", h)
    ELSE w

\* the graph object released whether or not the API table is set
DestroyGraph_ignores_api(w, h) ==
    IF w.sess[h].session # NULL
    THEN Gone(Ev(w, "ReleaseSession", "Session", h), "Session", h)
    ELSE w

\* lines 164-166
DestroyGraph(w, h) ==
    IF w.sess[h].session # NULL /\ w.g_ort # NULL
    THEN Gone(Ev(w, "ReleaseSession", "Session", h), "Session", h)
    ELSE w

\* lines 167-169
DestroyOptions(w, h) ==
    IF w.sess[h].options # NULL /\ w.g_ort # NULL
    THEN Gone(Ev(w, "ReleaseSessionOptions", "Options", h), "Options", h)
    ELSE w

\* line 171: free(session); the freed block's contents are dead, only "freed"
\* is kept of it
DestroyStruct(w, h) ==
    Gone(Ev([w EXCEPT !.sess[h] = [ZeroSession EXCEPT !.alloc = "freed"]],
            "free", "OnnxSession", h), "Struct", h)

\* the options object released before the graph object
onnx_destroy_session_options_first(w, h) ==
    IF h = NULL THEN Return(w, 0)
    ELSE Bind(Bind(Bind(Bind(Bind(w,
                                  LAMBDA x : DestroyInputNames(x, h)),
                             LAMBDA x : DestroyOutputNames(x, h)),
                        LAMBDA x : DestroyOptions(x, h)),
                   LAMBDA x : DestroyGraph(x, h)),
              LAMBDA x : Return(DestroyStruct(x, h), 0))

\* void onnx_destroy_session(OnnxSession* session)
onnx_destroy_session(w, h) ==
    IF h = NULL THEN Return(w, 0)
    ELSE Bind(Bind(Bind(Bind(Bind(w,
                                  LAMBDA x : DestroyInputNames(x, h)),
                             LAMBDA x : DestroyOutputNames(x, h)),
                        LAMBDA x : DestroyGraph(x, h)),
                   LAMBDA x : DestroyOptions(x, h)),
              LAMBDA x : Return(DestroyStruct(x, h), 0))

----------------------------------------------------------------------------
\* Ephemeral objects of an inference call
Ephemerals ==
    {"memory_info", "input_tensors[0]", "input_tensors[1]", "input_tensors[2]",
     "output_tensors[0]", "output_tensors[1]", "combined_state",
     "input_tensor", "output_tensor", "type_info", "dims"}

\* A backend call that makes an object when it succeeds
Make(w, api, obj, ok) == IF ok THEN Born(Ev(w, api, obj, 0), obj, 0) ELSE Ev(w, api, obj, 0)
\* A backend or heap call that releases one
Drop(w, api, obj) == Gone(Ev(w, api, obj, 0), obj, 0)

\* memcpy(dst + dstOff, src + srcOff, n * sizeof(float)) on float arrays
Memcpy(dst, dstOff, src, srcOff, n) ==
    [i \in 1..Len(dst) |->
        IF dstOff < i /\ i <= dstOff + n THEN src[srcOff + (i - dstOff)] ELSE dst[i]]

\* malloc'ed floats hold no defined value until written
Indeterminate == -1
Malloc(n) == [i \in 1..n |-> Indeterminate]

\* What the loaded graph computes from the packed state tensor: the backend is
\* opaque, so the graph is one of a few representative functions
GraphModes == {"same", "swap"}
GraphState(mode, state) ==
    IF mode = "same" THEN state
    ELSE Memcpy(Memcpy(state, 0, state, StateLen, StateLen), StateLen, state, 0, StateLen)
GraphProb(mode) == IF mode = "same" THEN 0 ELSE 1

VadFaults ==
    {"CreateCpuMemoryInfo", "CreateTensor(audio)", "CreateTensor(state)", "CreateTensor(sr)",
     "Run", "Run: output[0] unset", "Run: output[1] unset", "GetTensorMutableData"}

\* c_in packed in front of h_in
PackState_c_first(hv, cv) ==
    Memcpy(Memcpy(Malloc(CombinedLen), 0, cv, 0, StateLen), StateLen, hv, 0, StateLen)

\* lines 205-208: the transient buffer, h_in then c_in
PackState(hv, cv) ==
    Memcpy(Memcpy(Malloc(CombinedLen), 0, hv, 0, StateLen), StateLen, cv, 0, StateLen)

\* both halves taken from the start of the state output
UnpackC_from_start(dst, state_data) == Memcpy(dst, 0, state_data, 0, StateLen)

\* lines 245-251: the state output split back, first half to h_out, second to c_out
UnpackH(dst, state_data) == Memcpy(dst, 0, state_data, 0, StateLen)
UnpackC(dst, state_data) == Memcpy(dst, 0, state_data, StateLen, StateLen)

VadLocals ==
    [memory_info |-> NULL, input_tensors |-> <<NULL, NULL, NULL>>,
     output_tensors |-> <<NULL, NULL>>, combined_state |-> <<>>, status |-> NO_STATUS]

InputTensorName(i) ==
    IF i = 1 THEN "input_tensors[0]" ELSE IF i = 2 THEN "input_tensors[1]" ELSE "input_tensors[2]"

\* lines 261-263: one turn of the release loop
ReleaseInput(w, i) ==
    IF w.loc.input_tensors[i] # NULL THEN Drop(w, "ReleaseValue", InputTensorName(i)) ELSE w

\* line 264
ReleaseMemInfo(w) ==
    IF w.loc.memory_info # NULL THEN Drop(w, "ReleaseMemoryInfo", "memory_info") ELSE w

\* lines 260-266: the cleanup label
VadCleanup(w) ==
    Bind(Bind(Bind(Bind(Bind(w,
                             LAMBDA x : ReleaseInput(x, 1)),
                        LAMBDA x : ReleaseInput(x, 2)),
                   LAMBDA x : ReleaseInput(x, 3)),
              ReleaseMemInfo),
         LAMBDA x : Return(x, IF x.loc.status # NO_STATUS THEN -1 ELSE 0))

\* the failure exits without free(combined_state)
VadFail_leaks_buffer(w, status) ==
    VadCleanup(set_ort_error([w EXCEPT !.loc.status = status], status))

\* the failure exits once the buffer exists (lines 215, 223, 238):
\* free(combined_state); set_ort_error(status); goto cleanup
VadFail(w, status) ==
    VadCleanup(set_ort_error(Drop([w EXCEPT !.loc.status = status], "free", "combined_state"),
                             status))

\* lines 186-191
VadMemInfo(w) ==
    IF "CreateCpuMemoryInfo" \in w.faults
    THEN Return(set_ort_error(Make(w, "CreateCpuMemoryInfo", "memory_info", FALSE),
                              StatusOf("CreateCpuMemoryInfo", w.faults, w.nomsg)), -1)
    ELSE [Make(w, "CreateCpuMemoryInfo", "memory_info", TRUE) EXCEPT !.loc.memory_info = 1]

\* lines 197-203
VadAudioTensor(w) ==
    IF "CreateTensor(audio)" \in w.faults
    THEN VadCleanup(set_ort_error(
             [Make(w, "CreateTensorWithDataAsOrtValue", "input_tensors[0]", FALSE)
              EXCEPT !.loc.status = StatusOf("CreateTensor(audio)", w.faults, w.nomsg)],
             StatusOf("CreateTensor(audio)", w.faults, w.nomsg)))
    ELSE [Make(w, "CreateTensorWithDataAsOrtValue", "input_tensors[0]", TRUE)
          EXCEPT !.loc.input_tensors[1] = 1]

\* lines 205-208
VadPack(w, h_in, c_in) ==
    Bind(PackState(w.mem[h_in], w.mem[c_in]), LAMBDA packed :
        [Make(w, "malloc", "combined_state", TRUE)
         EXCEPT !.loc.combined_state = packed, !.obs.fed = packed])

\* lines 210-215
VadStateTensor(w) ==
    IF "CreateTensor(state)" \in w.faults
    THEN VadFail(Make(w, "CreateTensorWithDataAsOrtValue", "input_tensors[1]", FALSE),
                 StatusOf("CreateTensor(state)", w.faults, w.nomsg))
    ELSE [Make(w, "CreateTensorWithDataAsOrtValue", "input_tensors[1]", TRUE)
          EXCEPT !.loc.input_tensors[2] = 1]

\* lines 217-223
VadSrTensor(w) ==
    IF "CreateTensor(sr)" \in w.faults
    THEN VadFail(Make(w, "CreateTensorWithDataAsOrtValue", "input_tensors[2]", FALSE),
                 StatusOf("CreateTensor(sr)", w.faults, w.nomsg))
    ELSE [Make(w, "CreateTensorWithDataAsOrtValue", "input_tensors[2]", TRUE)
          EXCEPT !.loc.input_tensors[3] = 1]

\* lines 225-238: Run; on success the backend sets the output tensors
VadRun(w, h) ==
    IF "Run" \in w.faults
    THEN VadFail(Ev(w, "Run", "Session", h), StatusOf("Run", w.faults, w.nomsg))
    ELSE LET o1 == IF "Run: output[0] unset" \in w.faults THEN NULL ELSE 1
             o2 == IF "Run: output[1] unset" \in w.faults THEN NULL ELSE 1
         IN  [Ev(w, "Run", "Session", h)
              EXCEPT !.loc.output_tensors = <<o1, o2>>,
                     !.live[<<"output_tensors[0]", 0>>] = @ + o1,
                     !.live[<<"output_tensors[1]", 0>>] = @ + o2]

\* the probability stored without looking at prob_out
VadProb_unguarded(w, mode, prob_out) ==
    LET prob_data == IF w.loc.output_tensors[1] # NULL /\ ~("GetTensorMutableData" \in w.faults)
                     THEN 1 ELSE NULL
    IN  IF prob_data # NULL
        THEN [Ev(w, "GetTensorMutableData", "output_tensors[0]", 0)
              EXCEPT !.obs.prob_written = TRUE, !.obs.prob = GraphProb(mode)]
        ELSE Ev(w, "GetTensorMutableData", "output_tensors[0]", 0)

\* lines 240-243: the probability
VadProb(w, mode, prob_out) ==
    LET prob_data == IF w.loc.output_tensors[1] # NULL /\ ~("GetTensorMutableData" \in w.faults)
                     THEN 1 ELSE NULL
    IN  IF prob_data # NULL /\ prob_out # NULL
        THEN [Ev(w, "GetTensorMutableData", "output_tensors[0]", 0)
              EXCEPT !.obs.prob_written = TRUE, !.obs.prob = GraphProb(mode)]
        ELSE Ev(w, "GetTensorMutableData", "output_tensors[0]", 0)

\* lines 245-251: the state; state_data is what the graph made of the packed input
VadState(w, mode, h_out, c_out) ==
    Bind(IF w.loc.output_tensors[2] # NULL /\ ~("GetTensorMutableData" \in w.faults)
         THEN GraphState(mode, w.loc.combined_state) ELSE <<>>,
         LAMBDA state_data :
            [Ev(w, "GetTensorMutableData", "output_tensors[1]", 0)
             EXCEPT !.mem = IF state_data = <<>> THEN @
                            ELSE Bind(IF h_out # NULL
                                      THEN [@ EXCEPT ![h_out] = UnpackH(@, state_data)]
                                      ELSE @,
                                      LAMBDA m : IF c_out # NULL
                                                 THEN [m EXCEPT ![c_out] = UnpackC(@, state_data)]
                                                 ELSE m),
                    !.obs.h_written = state_data # <<>> /\ h_out # NULL,
                    !.obs.c_written = state_data # <<>> /\ c_out # NULL])

\* lines 253-258: output tensors released, then the buffer freed
VadReleaseOutputs(w) ==
    Bind(Bind(IF w.loc.output_tensors[1] # NULL
              THEN Drop(w, "ReleaseValue", "output_tensors[0]") ELSE w,
              LAMBDA x : IF x.loc.output_tensors[2] # NULL
                         THEN Drop(x, "ReleaseValue", "output_tensors[1]") ELSE x),
         LAMBDA x : Drop(x, "free", "combined_state"))

\* lines 186-267: onnx_run_vad past its guard
VadBody(w, h, mode, h_in, c_in, prob_out, h_out, c_out) ==
         Then(Then(Then(Then(Then(Then(Then(Then(Then(Then(
            [w EXCEPT !.loc = VadLocals],
            VadMemInfo),
            VadAudioTensor),
            LAMBDA x : VadPack(x, h_in, c_in)),
            VadStateTensor),
            VadSrTensor),
            LAMBDA x : VadRun(x, h)),
            LAMBDA x : VadProb(x, mode, prob_out)),
            LAMBDA x : VadState(x, mode, h_out, c_out)),
            VadReleaseOutputs),
            VadCleanup)

\* int onnx_run_vad(session, audio, audio_len, h_in, c_in, prob_out, h_out, c_out)
onnx_run_vad(w, h, mode, h_in, c_in, prob_out, h_out, c_out) ==
    IF h = NULL \/ w.g_ort = NULL THEN Return(set_error(w, MSG_INVALID), -1)
    ELSE VadBody(w, h, mode, h_in, c_in, prob_out, h_out, c_out)

----------------------------------------------------------------------------
\* Fixed-width arithmetic
\* a value stored in a size_t
ToSize(x) == x % (2 ^ SizeBits)
\* (int)x for a size_t x: the low IntBits bits, two's complement
ToInt(x) ==
    LET m == x % (2 ^ IntBits)
    IN  IF m >= 2 ^ (IntBits - 1) THEN m - 2 ^ IntBits ELSE m
INT_MAX == 2 ^ (IntBits - 1) - 1

RECURSIVE Product(_)
Product(dims) == IF dims = <<>> THEN 1 ELSE Head(dims) * Product(Tail(dims))

\* lines 322-325: size_t output_size = 1; output_size *= dims[i]
RECURSIVE OutputSize(_, _)
OutputSize(acc, dims) ==
    IF dims = <<>> THEN acc ELSE OutputSize(ToSize(acc * Head(dims)), Tail(dims))

\* line 329: the capacity test, made on ints
FitsBuffer(output_size, max_output_size) == ToInt(output_size) <= max_output_size

\* elements moved by memcpy(dst, src, n * sizeof(float)), the byte count a size_t
MemcpyElems(n) == ToSize(n * FloatSize) \div FloatSize

RunFaults ==
    {"CreateCpuMemoryInfo", "CreateTensor(input)", "Run", "Run: output unset",
     "GetTensorMutableData"}

\* lines 299-301 (and 381-383): reading input_names[0] and output_names[0].
\* "ok": both entries are names.  Otherwise the read is a memory error or hands
\* the backend a pointer that is no name: the process dies or Run reports failure.
FirstNames(s, ubCrash) ==
    IF s.input_names = NULL \/ s.output_names = NULL THEN "crash"
    ELSE IF s.num_inputs = 0 \/ s.num_outputs = 0 \/ s.in_name[1] = NULL \/ s.out_name[1] = NULL
    THEN (IF ubCrash THEN "crash" ELSE "bad")
    ELSE "ok"

Crash(w) == [w EXCEPT !.crashed = TRUE, !.done = TRUE]

AsrLocals ==
    [memory_info |-> NULL, input_tensor |-> NULL, output_tensor |-> NULL,
     status |-> NO_STATUS, result |-> -1]

\* lines 279-284 (and 361-366)
RunMemInfo(w) ==
    IF "CreateCpuMemoryInfo" \in w.faults
    THEN Return(set_ort_error(Make(w, "CreateCpuMemoryInfo", "memory_info", FALSE),
                              StatusOf("CreateCpuMemoryInfo", w.faults, w.nomsg)), -1)
    ELSE [Make(w, "CreateCpuMemoryInfo", "memory_info", TRUE) EXCEPT !.loc.memory_info = 1]

\* lines 286-297 (and 368-379)
RunInputTensor(w) ==
    IF "CreateTensor(input)" \in w.faults
    THEN Return(Drop(set_ort_error(
                    Make(w, "CreateTensorWithDataAsOrtValue", "input_tensor", FALSE),
                    StatusOf("CreateTensor(input)", w.faults, w.nomsg)),
                    "ReleaseMemoryInfo", "memory_info"), -1)
    ELSE [Make(w, "CreateTensorWithDataAsOrtValue", "input_tensor", TRUE)
          EXCEPT !.loc.input_tensor = 1]

\* lines 299-308 (and 381-390): the first names, then Run
RunGraph(w, h, ubCrash) ==
    LET names == FirstNames(w.sess[h], ubCrash)
        status == IF names = "bad" THEN StatusOf("Run", {"Run"}, w.nomsg)
                  ELSE StatusOf("Run", w.faults, w.nomsg)
        out == IF status # NO_STATUS \/ "Run: output unset" \in w.faults THEN NULL ELSE 1
    IN  IF names = "crash" THEN Crash(w)
        ELSE [Ev(w, "Run", "Session", h)
              EXCEPT !.loc.output_tensor = out, !.loc.status = status,
                     !.live[<<"output_tensor", 0>>] = @ + out]

\* lines 345-348 (and 406-409)
RunRelease(w) ==
    Return(Drop(Drop(w, "ReleaseValue", "input_tensor"), "ReleaseMemoryInfo", "memory_info"),
           w.loc.result)

\* lines 313-327: the output's shape read into output_size
AsrShape(w, dims) ==
    [Drop(Drop(Ev(Make(Ev(Make(w, "GetTensorTypeAndShape", "type_info", TRUE),
                          "GetDimensionsCount", "type_info", 0),
                       "malloc", "dims", TRUE),
                  "GetDimensions", "type_info", 0),
               "free", "dims"),
          "ReleaseTensorTypeAndShapeInfo", "type_info")
     EXCEPT !.loc.output_size = OutputSize(1, dims)]

\* lines 329-338: the capacity test and the copy
AsrCopy(w, logits_out, max_output_size) ==
    IF FitsBuffer(w.loc.output_size, max_output_size)
    THEN LET output_data == IF "GetTensorMutableData" \in w.faults THEN NULL ELSE 1
         IN  [Ev(w, "GetTensorMutableData", "output_tensor", 0)
              EXCEPT !.obs.copied = IF output_data # NULL /\ logits_out # NULL
                                    THEN MemcpyElems(w.loc.output_size) ELSE @,
                     !.loc.result = ToInt(w.loc.output_size)]
    ELSE set_error(w, MSG_TOO_SMALL)

\* lines 310-343
AsrOutput(w, dims, logits_out, max_output_size) ==
    IF w.loc.status = NO_STATUS /\ w.loc.output_tensor # NULL
    THEN Bind(Bind(AsrShape([w EXCEPT !.loc = [memory_info |-> @.memory_info,
                                 input_tensor |-> @.input_tensor,
                                 output_tensor |-> @.output_tensor, status |-> @.status,
                                 result |-> @.result, output_size |-> 0]], dims),
                   LAMBDA x : AsrCopy(x, logits_out, max_output_size)),
              LAMBDA x : Drop(x, "ReleaseValue", "output_tensor"))
    ELSE IF w.loc.status # NO_STATUS THEN set_ort_error(w, w.loc.status)
    ELSE w

\* lines 279-349: onnx_run_asr past its guard
AsrBody(w, h, dims, logits_out, max_output_size, ubCrash) ==
         Then(Then(Then(Then(Then(
            [w EXCEPT !.loc = AsrLocals, !.obs.product = Product(dims)],
            RunMemInfo),
            RunInputTensor),
            LAMBDA x : RunGraph(x, h, ubCrash)),
            LAMBDA x : AsrOutput(x, dims, logits_out, max_output_size)),
            RunRelease)

\* the guard reduced to the session pointer
onnx_run_asr_session_only(w, h, dims, logits_out, max_output_size, ubCrash) ==
    IF h = NULL THEN Return(set_error(w, MSG_INVALID), -1)
    ELSE AsrBody(w, h, dims, logits_out, max_output_size, ubCrash)

\* int onnx_run_asr(session, mel_lfr, frames, features, logits_out, max_output_size);
\* dims is the shape the runtime reports for the output tensor of this call
onnx_run_asr(w, h, dims, logits_out, max_output_size, ubCrash) ==
    IF h = NULL \/ w.g_ort = NULL THEN Return(set_error(w, MSG_INVALID), -1)
    ELSE AsrBody(w, h, dims, logits_out, max_output_size, ubCrash)

\* lines 392-404: the fixed 512-float copy
SpeakerOutput(w, embedding_out) ==
    IF w.loc.status = NO_STATUS /\ w.loc.output_tensor # NULL
    THEN LET output_data == IF "GetTensorMutableData" \in w.faults THEN NULL ELSE 1
             copy == output_data # NULL /\ embedding_out # NULL
         IN  Drop([Ev(w, "GetTensorMutableData", "output_tensor", 0)
                   EXCEPT !.obs.copied = IF copy THEN MemcpyElems(EmbeddingLen) ELSE @,
                          !.loc.result = IF copy THEN 0 ELSE @],
                  "ReleaseValue", "output_tensor")
    ELSE IF w.loc.status # NO_STATUS THEN set_ort_error(w, w.loc.status)
    ELSE w

\* int onnx_run_speaker(session, fbank, frames, embedding_out)
onnx_run_speaker(w, h, embedding_out, ubCrash) ==
    IF h = NULL \/ w.g_ort = NULL THEN Return(set_error(w, MSG_INVALID), -1)
    ELSE Then(Then(Then(Then(Then(
            [w EXCEPT !.loc = AsrLocals],
            RunMemInfo),
            RunInputTensor),
            LAMBDA x : RunGraph(x, h, ubCrash)),
            LAMBDA x : SpeakerOutput(x, embedding_out)),
            RunRelease)

----------------------------------------------------------------------------
\* copyhelper: bulk and strided copies between caller buffers.  A buffer is the
\* sequence of its floats; C index i is element i + 1.

\* void copy_floats(const float* src, float* dst, size_t count)
copy_floats(src, dst, count) == Memcpy(dst, 0, src, 0, MemcpyElems(count))

\* the stride left out of the source index
copy_strided_to_contiguous_unit(src, dst, count, stride) ==
    [i \in 1..Len(dst) |-> IF i <= count THEN src[i] ELSE dst[i]]

\* void copy_strided_to_contiguous(src, dst, count, stride): the loop of lines
\* 17-19, dst[i] = src[i * stride] for i = 0 .. count - 1
RECURSIVE StridedLoop(_, _, _, _, _)
StridedLoop(src, dst, count, stride, i) ==
    IF i >= count THEN dst
    ELSE StridedLoop(src, [dst EXCEPT ![i + 1] = src[ToSize(i * stride) + 1]],
                     count, stride, i + 1)

copy_strided_to_contiguous(src, dst, count, stride) ==
    StridedLoop(src, dst, count, stride, 0)

\* lines 30-32: one memcpy of vocab floats per time step
RECURSIVE Copy2DRows(_, _, _, _, _, _)
Copy2DRows(src, dst, time, vocab, stride1, t) ==
    IF t >= time THEN dst
    ELSE Copy2DRows(src, Memcpy(dst, ToSize(t * vocab), src, ToSize(t * stride1),
                                MemcpyElems(vocab)),
                    time, vocab, stride1, t + 1)

\* every call taking the single bulk copy
copy_2d_output_always_bulk(src, dst, time, vocab, stride1) ==
    [dst |-> Memcpy(dst, 0, src, 0, MemcpyElems(ToSize(time * vocab))),
     ret |-> ToSize(time * vocab)]

\* size_t copy_2d_output(const void* src, float* dst, time, vocab, stride1)
copy_2d_output(src, dst, time, vocab, stride1) ==
    [dst |-> IF stride1 = vocab
             THEN Memcpy(dst, 0, src, 0, MemcpyElems(ToSize(time * vocab)))
             ELSE Copy2DRows(src, dst, time, vocab, stride1, 0),
     ret |-> ToSize(time * vocab)]

----------------------------------------------------------------------------
\* The state machine: one action per exported function, called by one thread
Bufs == 1..4
LedgerKeys ==
    ({"Env"} \X {0})
    \cup ({"Struct", "Options", "Session", "InArr", "OutArr", "InName", "OutName"} \X Handles)
    \cup (Ephemerals \X {0})

NoObs ==
    [fed |-> <<>>, prob_written |-> FALSE, prob |-> 0, h_written |-> FALSE,
     c_written |-> FALSE, product |-> 0, copied |-> 0]

NoArgs ==
    [h |-> NULL, faults |-> {}, nomsg |-> FALSE, model_path |-> "", zeroNull |-> FALSE,
     mode |-> "", h_in |-> NULL, c_in |-> NULL, prob_out |-> NULL, h_out |-> NULL,
     c_out |-> NULL, dims |-> <<>>, out |-> NULL, max_output_size |-> 0, ubCrash |-> FALSE]

\* The world a call starts in
World(faults, nomsg) ==
    [g_ort |-> g_ort, g_env |-> g_env, g_error_msg |-> g_error_msg, sess |-> sess,
     live |-> live, mem |-> mem, trace |-> <<>>, ret |-> 0, faults |-> faults,
     nomsg |-> nomsg, done |-> FALSE, loc |-> <<>>, obs |-> NoObs, crashed |-> FALSE]

\* How the last call ended, as far as a following call's contract depends on it
Outcome ==
    IF op = "onnx_init" /\ ret = -1 THEN "init failed"
    ELSE IF op = "onnx_cleanup" THEN "cleaned up"
    ELSE IF op = "onnx_create_session" /\ ret = NULL /\ pre.g_ort # NULL
            /\ ~Loadable(args.model_path)
            /\ args.faults \cap {"calloc", "CreateSessionOptions"} = {}
    THEN "load failed"
    ELSE "other"

\* The call has returned (or the process has died): its effects become the state
Commit(w, name, a) ==
    /\ g_ort' = w.g_ort
    /\ g_env' = w.g_env
    /\ g_error_msg' = w.g_error_msg
    /\ sess' = w.sess
    /\ live' = w.live
    /\ mem' = w.mem
    /\ op' = name
    /\ args' = a
    /\ ret' = w.ret
    /\ trace' = w.trace
    /\ obs' = w.obs
    /\ pre' = [g_ort |-> g_ort, g_env |-> g_env]
    /\ prev' = Outcome
    /\ crashed' = w.crashed
    /\ thr' = thr
    /\ copycall' = copycall

\* Sets of at most MaxFaults backend calls that fail, and whether a failing
\* status carries a message
FaultSets(F) == {S \in SUBSET F : Cardinality(S) <= MaxFaults}
Flavours(F) == {x \in FaultSets(F) \X BOOLEAN : x[2] => x[1] # {}}
\* No failure, or one failing call whose status carries a message
OneFault(F) == {<<{}, FALSE>>} \cup {<<{f}, FALSE>> : f \in F}
\* Any failures, each status carrying a message
Quiet(F) == FaultSets(F) \X {FALSE}

\* Handles the caller may pass: NULL or a session it holds
Held == {h \in Handles : sess[h].alloc = "live"}
Passable == {NULL} \cup Held

InitGlobals ==
    /\ g_ort = NULL
    /\ g_env = NULL
    /\ g_error_msg = ""
    /\ sess = [h \in Handles |-> ZeroSession]
    /\ live = [k \in LedgerKeys |-> 0]
    /\ mem = [b \in Bufs |-> [i \in 1..StateLen |-> 1000 * b + i]]
    /\ op = "none"
    /\ args = NoArgs
    /\ ret = 0
    /\ trace = <<>>
    /\ obs = NoObs
    /\ pre = [g_ort |-> NULL, g_env |-> NULL]
    /\ prev = "other"
    /\ crashed = FALSE
    /\ copycall = [fn |-> "none"]

\* The callers: two threads, each outside any call; whether they wrap every call
\* in one exclusive lock
Threads == {1, 2}
NoThreads(locked) ==
    [locked |-> locked, lock |-> 0, pc |-> [t \in Threads |-> "idle"],
     h |-> [t \in Threads |-> NULL], zero_noenv |-> FALSE, used_cleared |-> FALSE]

Init == InitGlobals /\ thr = NoThreads(FALSE)

InitCall ==
    /\ ~crashed
    /\ \E x \in Flavours(InitFaults) :
       \E w \in {onnx_init(World(x[1], x[2]))} :
          Commit(w, "onnx_init", [NoArgs EXCEPT !.faults = x[1], !.nomsg = x[2]])

CleanupCall ==
    /\ ~crashed
    /\ \E w \in {onnx_cleanup(World({}, FALSE))} : Commit(w, "onnx_cleanup", NoArgs)

CreateCall(paths, X, zeroNulls) ==
    /\ ~crashed
    /\ \E h \in Handles :
          /\ sess[h].alloc = "unused"
          /\ \A k \in Handles : k < h => sess[k].alloc # "unused"
          /\ \E model_path \in paths, x \in X, zeroNull \in zeroNulls :
             \E w \in {onnx_create_session(World(x[1], x[2]), h, model_path, zeroNull)} :
                Commit(w, "onnx_create_session",
                       [NoArgs EXCEPT !.faults = x[1], !.nomsg = x[2],
                                      !.model_path = model_path, !.zeroNull = zeroNull])

DestroyCall ==
    /\ ~crashed
    /\ \E h \in Passable :
       \E w \in {onnx_destroy_session(World({}, FALSE), h)} :
          Commit(w, "onnx_destroy_session", [NoArgs EXCEPT !.h = h])

VadCall(X, modes, ins, outs) ==
    /\ ~crashed
    /\ \E h \in Passable, x \in X, mode \in modes, i \in ins, o \in outs :
       \E w \in {onnx_run_vad(World(x[1], x[2]), h, mode, i[1], i[2], o[1], o[2], o[3])} :
          Commit(w, "onnx_run_vad",
                 [NoArgs EXCEPT !.h = h, !.faults = x[1], !.nomsg = x[2], !.mode = mode,
                                !.h_in = i[1], !.c_in = i[2], !.prob_out = o[1],
                                !.h_out = o[2], !.c_out = o[3]])

AsrCall(X, shapes, caps, outs, ubs) ==
    /\ ~crashed
    /\ \E h \in Passable, x \in X, dims \in shapes, max_output_size \in caps,
          logits_out \in outs, ubCrash \in ubs :
       \E w \in {onnx_run_asr(World(x[1], x[2]), h, dims, logits_out, max_output_size, ubCrash)} :
          Commit(w, "onnx_run_asr",
                 [NoArgs EXCEPT !.h = h, !.faults = x[1], !.nomsg = x[2], !.dims = dims,
                                !.out = logits_out, !.max_output_size = max_output_size,
                                !.ubCrash = ubCrash])

SpeakerCall(X, outs, ubs) ==
    /\ ~crashed
    /\ \E h \in Passable, x \in X, embedding_out \in outs, ubCrash \in ubs :
       \E w \in {onnx_run_speaker(World(x[1], x[2]), h, embedding_out, ubCrash)} :
          Commit(w, "onnx_run_speaker",
                 [NoArgs EXCEPT !.h = h, !.faults = x[1], !.nomsg = x[2],
                                !.out = embedding_out, !.ubCrash = ubCrash])

----------------------------------------------------------------------------
\* Two threads calling without the layer synchronizing anything: each call is a
\* sequence of steps, one per access to g_ort / g_env, interleaved freely unless
\* the callers hold one exclusive lock around every call

\* A thread's step: the globals it leaves and where the threads are after it
ThreadStep(w, T) ==
    /\ g_ort' = w.g_ort
    /\ g_env' = w.g_env
    /\ g_error_msg' = w.g_error_msg
    /\ sess' = w.sess
    /\ live' = w.live
    /\ mem' = w.mem
    /\ crashed' = w.crashed
    /\ thr' = T
    /\ UNCHANGED <<op, args, ret, trace, obs, pre, prev, copycall>>

Goto(T, t, p) == [T EXCEPT !.pc[t] = p]
Leave(T, t) == [T EXCEPT !.pc[t] = "idle", !.lock = 0]
At(t, p) == ~crashed /\ thr.pc[t] = p

\* Environments created and not released stay counted; calls start while the
\* count is in range
EnvsInRange == live[<<"Env", 0>>] \in 0..(MaxEnvs - 1)

\* Thread t enters a function (taking the lock first if the callers use one)
Enter(t, p, h) ==
    /\ At(t, "idle") /\ EnvsInRange
    /\ thr.locked => thr.lock = 0
    /\ ThreadStep(World({}, FALSE),
                  [thr EXCEPT !.pc[t] = p, !.h[t] = h,
                              !.lock = IF thr.locked THEN t ELSE 0])

ThreadCall(t) ==
    \/ Enter(t, "init: guard", NULL)
    \/ Enter(t, "cleanup: test", NULL)
    \/ \E h \in Held : Enter(t, "run: guard", h)

\* onnx_init line 41: if (g_ort != NULL) return 0;
InitGuardStep(t) ==
    /\ At(t, "init: guard")
    /\ IF g_ort # NULL
       THEN ThreadStep(World({}, FALSE),
                       [Leave(thr, t) EXCEPT !.zero_noenv = @ \/ g_env = NULL])
       ELSE ThreadStep(World({}, FALSE), Goto(thr, t, "init: GetApi"))

\* line 43: g_ort = OrtGetApiBase()->GetApi(ORT_API_VERSION);
InitApiStep(t) ==
    /\ At(t, "init: GetApi")
    /\ ThreadStep(InitGetApi(World({}, FALSE)), Goto(thr, t, "init: check"))

\* lines 44-47: if (!g_ort) { set_error(...); return -1; }
InitCheckStep(t) ==
    /\ At(t, "init: check")
    /\ IF g_ort = NULL
       THEN ThreadStep(set_error(World({}, FALSE), MSG_NO_API), Leave(thr, t))
       ELSE ThreadStep(World({}, FALSE), Goto(thr, t, "init: CreateEnv"))

\* lines 49-56: g_ort->CreateEnv(..., &g_env); a NULL g_ort is dereferenced
InitEnvStep(t) ==
    /\ At(t, "init: CreateEnv")
    /\ IF g_ort = NULL
       THEN ThreadStep(Crash(World({}, FALSE)), thr)
       ELSE ThreadStep(InitCreateEnv(World({}, FALSE)), Leave(thr, t))

\* onnx_cleanup line 60: if (g_env && g_ort)
CleanupTestStep(t) ==
    /\ At(t, "cleanup: test")
    /\ ThreadStep(World({}, FALSE),
                  Goto(thr, t, IF g_env # NULL /\ g_ort # NULL
                               THEN "cleanup: ReleaseEnv" ELSE "cleanup: g_env"))

\* line 61: g_ort->ReleaseEnv(g_env); both read again; releasing NULL is a no-op
CleanupReleaseStep(t) ==
    /\ At(t, "cleanup: ReleaseEnv")
    /\ IF g_ort = NULL
       THEN ThreadStep(Crash(World({}, FALSE)), thr)
       ELSE ThreadStep(IF g_env # NULL
                       THEN Gone(Ev(World({}, FALSE), "ReleaseEnv", "Env", 0), "Env", 0)
                       ELSE Ev(World({}, FALSE), "ReleaseEnv", "Env", 0),
                       Goto(thr, t, "cleanup: g_env"))

\* line 63: g_env = NULL;
CleanupEnvStep(t) ==
    /\ At(t, "cleanup: g_env")
    /\ ThreadStep([World({}, FALSE) EXCEPT !.g_env = NULL], Goto(thr, t, "cleanup: g_ort"))

\* line 64: g_ort = NULL;
CleanupOrtStep(t) ==
    /\ At(t, "cleanup: g_ort")
    /\ ThreadStep([World({}, FALSE) EXCEPT !.g_ort = NULL], Leave(thr, t))

\* onnx_run_speaker lines 356-359: if (!session || !g_ort)
RunGuardStep(t) ==
    /\ At(t, "run: guard")
    /\ IF thr.h[t] = NULL \/ g_ort = NULL
       THEN ThreadStep(set_error(World({}, FALSE), MSG_INVALID), Leave(thr, t))
       ELSE ThreadStep(World({}, FALSE), Goto(thr, t, "run: body"))

\* lines 361-409: the first use of the API table, g_ort->CreateCpuMemoryInfo, and
\* what follows it; a NULL g_ort is dereferenced
RunBodyStep(t) ==
    /\ At(t, "run: body")
    /\ IF g_ort = NULL
       THEN ThreadStep(Crash(World({}, FALSE)), [thr EXCEPT !.used_cleared = TRUE])
       ELSE \E w \in {onnx_run_speaker(World({}, FALSE), thr.h[t], 1, FALSE)} :
               ThreadStep(w, Leave(thr, t))

\* A session is created while no other call is running
ThreadCreate ==
    /\ \A t \in Threads : thr.pc[t] = "idle"
    /\ EnvsInRange
    /\ CreateCall({"asr.onnx"}, OneFault({}), {FALSE})

InitThreads == InitGlobals /\ thr \in {NoThreads(locked) : locked \in BOOLEAN}

NextThreads ==
    \/ ThreadCreate
    \/ \E t \in Threads :
          \/ ThreadCall(t)
          \/ InitGuardStep(t) \/ InitApiStep(t) \/ InitCheckStep(t) \/ InitEnvStep(t)
          \/ CleanupTestStep(t) \/ CleanupReleaseStep(t) \/ CleanupEnvStep(t)
          \/ CleanupOrtStep(t)
          \/ RunGuardStep(t) \/ RunBodyStep(t)

SpecThreads == InitThreads /\ [][NextThreads]_vars

----------------------------------------------------------------------------
\* The copy helpers, called on buffers of known contents

\* Source floats are all different; the destination starts as its own pattern
SrcLen == MaxCount * (MaxCount + MaxPad)
DstLen == MaxCount * MaxCount + 1
SrcBuffer == [i \in 1..SrcLen |-> 100 + i]
DstBuffer == [i \in 1..DstLen |-> -i]

CopyReturn(name, a, dst, r) ==
    /\ copycall' = [fn |-> name, src |-> SrcBuffer, dst0 |-> DstBuffer, dst |-> dst,
                    ret |-> r,
                    count |-> a.count, stride |-> a.stride, time |-> a.time,
                    vocab |-> a.vocab, stride1 |-> a.stride1]
    /\ UNCHANGED <<g_ort, g_env, g_error_msg, sess, live, mem, op, args, ret, trace, obs,
                   pre, prev, crashed, thr>>

NoCopyArgs == [count |-> 0, stride |-> 0, time |-> 0, vocab |-> 0, stride1 |-> 0]

CopyFloatsCall ==
    \E count \in 0..MaxCount :
       CopyReturn("copy_floats", [NoCopyArgs EXCEPT !.count = count],
                  copy_floats(SrcBuffer, DstBuffer, count), 0)

\* the caller's source holds element (count - 1) * stride
CopyStridedCall ==
    \E count \in 0..MaxCount, stride \in 0..(MaxPad + 1) :
       /\ count > 0 => (count - 1) * stride < SrcLen
       /\ CopyReturn("copy_strided_to_contiguous",
                     [NoCopyArgs EXCEPT !.count = count, !.stride = stride],
                     copy_strided_to_contiguous(SrcBuffer, DstBuffer, count, stride), 0)

\* the caller's source holds time rows of stride1 floats, the last one at least
\* vocab long
Copy2DCall ==
    \E time \in 0..MaxCount, vocab \in 0..MaxCount :
    \E stride1 \in 0..(vocab + MaxPad) :
       /\ time > 0 => (time - 1) * stride1 + vocab <= SrcLen
       /\ time * vocab < DstLen
       /\ \E r \in {copy_2d_output(SrcBuffer, DstBuffer, time, vocab, stride1)} :
             CopyReturn("copy_2d_output",
                        [NoCopyArgs EXCEPT !.time = time, !.vocab = vocab,
                                           !.stride1 = stride1], r.dst, r.ret)

NextCopy == CopyFloatsCall \/ CopyStridedCall \/ Copy2DCall

SpecCopy == Init /\ [][NextCopy]_vars

\* Lifecycle: every function; backend failures at the steps that are fatal to
\* onnx_init and onnx_create_session; inference on fixed data
FatalCreateFaults ==
    {"calloc", "CreateSessionOptions", "AppendExecutionProvider_CoreML",
     "GetAllocatorWithDefaultOptions"}

Next ==
    \/ InitCall
    \/ CleanupCall
    \/ CreateCall({"asr.onnx", "missing.onnx"}, Flavours(FatalCreateFaults), {FALSE})
    \/ DestroyCall
    \/ VadCall(Flavours({"Run"}), {"same"}, {<<1, 2>>}, {<<NULL, NULL, NULL>>})
    \/ AsrCall(Flavours({"Run"}), {<<2, 3>>}, {INT_MAX}, {1}, {FALSE})
    \/ SpeakerCall(Flavours({"Run"}), {1}, {FALSE})

\* Inference: each backend failure of the three inference calls; the VAD state
\* is updated in place
NextRun ==
    \/ InitCall
    \/ CreateCall({"asr.onnx"}, OneFault({}), {FALSE})
    \/ VadCall(OneFault(VadFaults), {"same"}, {<<1, 2>>}, {<<1, 1, 2>>})
    \/ AsrCall(OneFault(RunFaults), {<<2, 3>>}, {5, INT_MAX}, {1}, {FALSE})
    \/ SpeakerCall(OneFault(RunFaults), {NULL, 1}, {FALSE})

\* Recurrent state: the VAD call with the two input buffers in either order,
\* the graph returning the state as fed or with its halves exchanged
NextVad ==
    \/ InitCall
    \/ CreateCall({"silero_vad.onnx"}, OneFault({}), {FALSE})
    \/ VadCall(OneFault({"Run"}), GraphModes, {<<1, 2>>, <<2, 1>>}, {<<1, 3, 4>>})

\* Output size: the ASR call on reported shapes whose products go from 0 to
\* MaxDim * MaxDim, against a buffer of no, some and the largest capacity
AsrShapes == {<<a, b>> : a \in {1, MaxDim}, b \in 0..MaxDim}
AsrCaps == {0, 3, INT_MAX}
NextAsr ==
    \/ InitCall
    \/ CreateCall({"asr.onnx"}, OneFault({}), {FALSE})
    \/ AsrCall(OneFault({}), AsrShapes, AsrCaps, {1}, {FALSE})

\* Destruction: sessions whose name tables are complete, partly filled, empty
\* or absent, destroyed before or after onnx_cleanup
NameFaults == {"SessionGetInputName", "SessionGetOutputName"}
NextDestroy ==
    \/ InitCall
    \/ CleanupCall
    \/ CreateCall({"asr.onnx", "noio.onnx"}, Quiet(NameFaults), BOOLEAN)
    \/ DestroyCall

\* Optional outputs: the VAD call with every subset of its three output
\* pointers null
OutSubsets == {<<p, h, c>> : p \in {NULL, 1}, h \in {NULL, 3}, c \in {NULL, 4}}
NextVadOut ==
    \/ InitCall
    \/ CreateCall({"silero_vad.onnx"}, OneFault({}), {FALSE})
    \/ VadCall(OneFault({}), {"same"}, {<<1, 2>>}, OutSubsets)

\* Aliasing: the VAD call with its state outputs on the buffers of its state
\* inputs: both in place, both crossed, or one output only on either input; the
\* graph exchanges the halves of the state
AliasIns == {<<1, 2>>}
AliasOuts ==
    {<<NULL, 1, 2>>, <<NULL, 2, 1>>, <<NULL, 1, 3>>, <<NULL, 3, 2>>, <<NULL, 2, 3>>,
     <<NULL, 3, 1>>}
NextAlias ==
    \/ InitCall
    \/ CreateCall({"silero_vad.onnx"}, OneFault({}), {FALSE})
    \/ VadCall(OneFault({}), {"swap"}, AliasIns, AliasOuts)

\* Names: ASR and speaker calls on sessions whose name tables are complete,
\* missing an entry, empty or absent
NextNames ==
    \/ InitCall
    \/ CreateCall({"asr.onnx", "noio.onnx"}, OneFault(NameFaults), BOOLEAN)
    \/ AsrCall(OneFault({}), {<<2, 3>>}, {INT_MAX}, {1}, BOOLEAN)
    \/ SpeakerCall(OneFault({}), {1}, BOOLEAN)

Spec == Init /\ [][Next]_vars
SpecVadOut == Init /\ [][NextVadOut]_vars
SpecAlias == Init /\ [][NextAlias]_vars
SpecNames == Init /\ [][NextNames]_vars
SpecDestroy == Init /\ [][NextDestroy]_vars
SpecRun == Init /\ [][NextRun]_vars
SpecVad == Init /\ [][NextVad]_vars
SpecAsr == Init /\ [][NextAsr]_vars

----------------------------------------------------------------------------
\* Reading the log of a call
Calls(t, api) == Cardinality({i \in 1..Len(t) : t[i][1] = api})
CallsOn(t, api, obj) == Cardinality({i \in 1..Len(t) : t[i][1] = api /\ t[i][2] = obj})
\* no backend or heap call at all: at most the wrapper's own set_error
NoBackendCall(t) == \A i \in 1..Len(t) : t[i][1] = "set_error"
\* set_error ran, and the last-error string is what it wrote last
ErrorSetInCall(t, msg) ==
    /\ Calls(t, "set_error") >= 1
    /\ \E i \in 1..Len(t) :
          /\ t[i][1] = "set_error" /\ t[i][2] = msg
          /\ \A j \in (i + 1)..Len(t) : t[j][1] # "set_error"

Uninitialized(p) == p.g_ort = NULL \/ p.g_env = NULL
InferenceOps == {"onnx_run_vad", "onnx_run_asr", "onnx_run_speaker"}

\* C1: while the environment is uninitialized, onnx_create_session returns NULL,
\* every inference call returns -1, and none of them makes any backend call
\* (no session is created, no graph is run).
C1_UninitializedRefuses ==
    (op \in InferenceOps \cup {"onnx_create_session"} /\ Uninitialized(pre)) =>
        /\ ret = (IF op = "onnx_create_session" THEN NULL ELSE -1)
        /\ NoBackendCall(trace)
        /\ ~crashed
        /\ live[<<"Env", 0>>] = 0

\* C1 witness: an inference call on a held session after the environment was
\* cleaned up
C1_Witness ==
    /\ op = "onnx_run_asr" /\ args.h # NULL /\ Uninitialized(pre)
    /\ prev = "cleaned up" /\ ret = -1

ReleaseApis ==
    {"ReleaseValue", "ReleaseMemoryInfo", "ReleaseTensorTypeAndShapeInfo", "free"}
Releases(t, obj) ==
    Cardinality({i \in 1..Len(t) : t[i][1] \in ReleaseApis /\ t[i][2] = obj /\ t[i][3] = 0})

\* C2: when onnx_run_vad, onnx_run_asr or onnx_run_speaker returns, on whatever
\* path, every ephemeral object the call created (memory info, input tensors,
\* output tensors, shape info, the VAD state buffer, the dims array) has been
\* released exactly once: none is still live, none was released twice.
C2_EphemeralsReleasedOnce ==
    (op \in InferenceOps /\ ~crashed) =>
        \A e \in Ephemerals : live[<<e, 0>>] = 0 /\ Releases(trace, e) <= 1

\* C2 witness: the VAD call failing at the sample-rate tensor, with the buffer,
\* two input tensors and the memory info to release
C2_Witness ==
    /\ op = "onnx_run_vad" /\ ret = -1 /\ args.faults = {"CreateTensor(sr)"}
    /\ Releases(trace, "combined_state") = 1
    /\ Releases(trace, "input_tensors[0]") = 1
    /\ Releases(trace, "input_tensors[1]") = 1
    /\ Releases(trace, "memory_info") = 1

\* The caller's buffers are pairwise distinct from the inputs (no aliasing)
Disjoint(a) == {a.h_out, a.c_out} \cap {a.h_in, a.c_in} = {} /\ a.h_out # a.c_out

\* C3: the transient buffer is h_in at offsets 0..127 then c_in at 128..255, the
\* state output goes offsets 0..127 to h_out and 128..255 to c_out, and when the
\* graph returns the state tensor unchanged the call yields h_out = h_in and
\* c_out = c_in element for element.
C3_StateRoundTrip ==
    (/\ op = "onnx_run_vad" /\ ret = 0 /\ obs.h_written /\ obs.c_written
     /\ Disjoint(args)) =>
        /\ Len(obs.fed) = CombinedLen
        /\ \A i \in 1..StateLen :
              /\ obs.fed[i] = mem[args.h_in][i]
              /\ obs.fed[StateLen + i] = mem[args.c_in][i]
              /\ mem[args.h_out][i] = GraphState(args.mode, obs.fed)[i]
              /\ mem[args.c_out][i] = GraphState(args.mode, obs.fed)[StateLen + i]
        /\ args.mode = "same" =>
              /\ mem[args.h_out] = mem[args.h_in]
              /\ mem[args.c_out] = mem[args.c_in]

\* C3 witness: a successful call on an unchanged state whose two halves differ
C3_Witness ==
    /\ op = "onnx_run_vad" /\ ret = 0 /\ obs.h_written /\ obs.c_written
    /\ args.mode = "same" /\ args.h_in = 2 /\ args.c_in = 1
    /\ mem[args.h_out] = mem[2] /\ mem[args.c_out] = mem[1] /\ mem[1] # mem[2]

\* The ASR call ran the graph and got an output tensor
AsrGotOutput ==
    /\ op = "onnx_run_asr" /\ ~crashed /\ pre.g_ort # NULL /\ args.h # NULL
    /\ args.faults \cap {"CreateCpuMemoryInfo", "CreateTensor(input)", "Run",
                         "Run: output unset"} = {}

\* C4: whenever the product of the reported dimensions exceeds max_output_size,
\* onnx_run_asr returns -1, the last-error string is the buffer-too-small
\* message and no element of logits_out is written; for every product, also
\* those that do not fit in an int.
C4_TooSmallRejected ==
    (AsrGotOutput /\ obs.product > args.max_output_size) =>
        /\ ret = -1
        /\ g_error_msg = MSG_TOO_SMALL
        /\ obs.copied = 0

\* C5: whenever onnx_run_asr returns a non-negative value, that value is the
\* product of the reported dimensions and exactly that many elements were
\* copied into logits_out.
C5_ReturnsElementCount ==
    (op = "onnx_run_asr" /\ ~crashed /\ ret >= 0) =>
        /\ ret = obs.product
        /\ obs.copied = obs.product

PerSession == {"Struct", "Options", "Session", "InArr", "OutArr", "InName", "OutName"}

\* The step of onnx_create_session that fails, for a call that got its struct
CreateFailsAt ==
    IF "CreateSessionOptions" \in args.faults THEN "options"
    ELSE IF ~Loadable(args.model_path) THEN "load"
    ELSE IF "GetAllocatorWithDefaultOptions" \in args.faults THEN "allocator"
    ELSE "none"

\* C6: onnx_create_session failing at session-options creation, at model load
\* or at allocator retrieval returns NULL with the last-error string set in that
\* call, and has released exactly once everything it had created: the options
\* object, the graph object and the struct; nothing of the attempt stays live.
C6_CreateFailureReleasesAll ==
    (/\ op = "onnx_create_session" /\ ~Uninitialized(pre)
     /\ ~("calloc" \in args.faults) /\ CreateFailsAt # "none") =>
        /\ ret = NULL
        /\ ErrorSetInCall(trace, g_error_msg)
        /\ Calls(trace, "ReleaseSessionOptions") = (IF CreateFailsAt = "options" THEN 0 ELSE 1)
        /\ Calls(trace, "ReleaseSession") = (IF CreateFailsAt = "allocator" THEN 1 ELSE 0)
        /\ CallsOn(trace, "free", "OnnxSession") = 1
        /\ \A h \in Handles : sess[h].alloc = "unused" =>
              \A k \in PerSession : live[<<k, h>>] = 0

\* C6 witness: the failure at allocator retrieval, options and graph both made
C6_Witness ==
    /\ op = "onnx_create_session" /\ ~Uninitialized(pre) /\ ~("calloc" \in args.faults)
    /\ CreateFailsAt = "allocator" /\ ret = NULL
    /\ Calls(trace, "ReleaseSession") = 1

\* C7: a create that fails at model load leaves g_ort and g_env as they were
\* (and the environment object live), and a create on a loadable model right
\* after it, with no onnx_init in between, returns a session.
C7_FailedLoadLeavesEnvironment ==
    /\ (op = "onnx_create_session" /\ Outcome = "load failed") =>
          /\ ret = NULL
          /\ g_ort = pre.g_ort /\ g_env = pre.g_env
          /\ live[<<"Env", 0>>] = 1
    /\ (/\ prev = "load failed" /\ op = "onnx_create_session"
        /\ Loadable(args.model_path)
        /\ args.faults \subseteq {"AppendExecutionProvider_CoreML"}) =>
          /\ ret # NULL
          /\ sess[ret].alloc = "live"
          /\ sess[ret].session # NULL

\* C7 witness: the create that succeeds right after the failed load
C7_Witness ==
    /\ prev = "load failed" /\ op = "onnx_create_session"
    /\ args.model_path = "asr.onnx" /\ ret # NULL

\* C8: onnx_init on an initialized environment returns 0, makes no backend call
\* (no second environment) and leaves g_ort, g_env and the last-error string
\* as they were.
C8_InitIdempotent ==
    [][(op' = "onnx_init" /\ g_ort # NULL) =>
          /\ ret' = 0
          /\ trace' = <<>>
          /\ g_ort' = g_ort /\ g_env' = g_env /\ g_error_msg' = g_error_msg
          /\ live' = live /\ live'[<<"Env", 0>>] = 1]_vars

\* C8 witness: onnx_init called when already initialized
C8_Witness == op = "onnx_init" /\ pre.g_ort # NULL /\ pre.g_env # NULL /\ ret = 0

\* C9: onnx_cleanup on a never-initialized environment makes no backend call and
\* changes nothing; onnx_cleanup in any state leaves g_ort and g_env NULL, the
\* environment object released exactly once if there was one; and an onnx_init
\* right after onnx_cleanup initializes in full again.
C9_CleanupThenInit ==
    [][/\ (op' = "onnx_cleanup" /\ g_ort = NULL /\ g_env = NULL) =>
             /\ trace' = <<>>
             /\ UNCHANGED <<g_ort, g_env, g_error_msg, sess, live, mem>>
       /\ op' = "onnx_cleanup" =>
             /\ g_ort' = NULL /\ g_env' = NULL
             /\ live'[<<"Env", 0>>] = 0
             /\ Calls(trace', "ReleaseEnv") = live[<<"Env", 0>>]
             /\ Len(trace') = Calls(trace', "ReleaseEnv")
       /\ (op = "onnx_cleanup" /\ op' = "onnx_init") =>
             /\ Calls(trace', "GetApi") = 1
             /\ args'.faults = {} =>
                   /\ ret' = 0
                   /\ g_ort' # NULL /\ g_env' # NULL
                   /\ Calls(trace', "CreateEnv") = 1
                   /\ live'[<<"Env", 0>>] = 1]_vars

\* C9 witness: a successful onnx_init right after an onnx_cleanup that released
\* an environment
C9_Witness ==
    /\ prev = "cleaned up" /\ op = "onnx_init" /\ ret = 0
    /\ Calls(trace, "CreateEnv") = 1

\* C10: a failing onnx_init returns -1 with the last-error string set in that
\* call and leaves g_ort and g_env NULL; a create right after it returns NULL
\* and an onnx_init right after it starts the initialization over.
C10_InitFailureLeavesUninitialized ==
    /\ (op = "onnx_init" /\ pre.g_ort = NULL /\ args.faults # {}) =>
          /\ ret = -1
          /\ ErrorSetInCall(trace, g_error_msg)
          /\ g_ort = NULL /\ g_env = NULL
          /\ live[<<"Env", 0>>] = 0
    /\ (prev = "init failed" /\ op = "onnx_create_session") =>
          ret = NULL /\ NoBackendCall(trace)
    /\ (prev = "init failed" /\ op = "onnx_init") =>
          /\ Calls(trace, "GetApi") = 1
          /\ args.faults = {} => (ret = 0 /\ g_env # NULL)

\* C10 witness: the retry that succeeds right after a failed onnx_init
C10_Witness ==
    /\ prev = "init failed" /\ op = "onnx_init" /\ ret = 0
    /\ Calls(trace, "CreateEnv") = 1

\* The call returned its failure indicator
ReturnedFailure ==
    /\ ~crashed
    /\ \/ op \in InferenceOps \cup {"onnx_init"} /\ ret = -1
       \/ op = "onnx_create_session" /\ ret = NULL

\* C11: every operation that returns a failure indicator (-1 from onnx_init and
\* the inference calls, NULL from onnx_create_session) has overwritten the
\* last-error string during that same call, on every failing path.
C11_FailureSetsError ==
    ReturnedFailure => Calls(trace, "set_error") >= 1

\* The call just made is onnx_create_session with provider attachment failing and
\* option creation, model load and allocator retrieval succeeding
AttachOnlyFails ==
    /\ op' = "onnx_create_session" /\ ~Uninitialized(pre')
    /\ "AppendExecutionProvider_CoreML" \in args'.faults
    /\ args'.faults \cap {"calloc", "CreateSessionOptions",
                          "GetAllocatorWithDefaultOptions"} = {}
    /\ Loadable(args'.model_path)

\* C12: when only provider attachment fails, onnx_create_session returns a
\* non-NULL session, releases the provider's failure status exactly once, leaves
\* the last-error string as it was, and ends as the same call does when
\* attachment succeeds.
C12_AttachFailureNotSurfaced ==
    [][AttachOnlyFails =>
        /\ ret' # NULL
        /\ CallsOn(trace', "ReleaseStatus", "status") = 1
        /\ g_error_msg' = g_error_msg
        /\ \E good \in {onnx_create_session(World({}, FALSE), ret', args'.model_path,
                                            args'.zeroNull)} :
              /\ good.ret = ret'
              /\ good.sess = sess'
              /\ good.live = live'
              /\ good.g_error_msg = g_error_msg'
              /\ good.g_ort = g_ort' /\ good.g_env = g_env']_vars

\* C12 witness: a session created although attachment failed, an earlier error
\* still in the last-error string
C12_Witness ==
    /\ op = "onnx_create_session" /\ ret # NULL
    /\ "AppendExecutionProvider_CoreML" \in args.faults
    /\ CallsOn(trace, "ReleaseStatus", "status") = 1
    /\ g_error_msg # ""

SetEntries(names) == Cardinality({i \in 1..Len(names) : names[i] # NULL})
One(b) == IF b THEN 1 ELSE 0

\* What onnx_destroy_session(h) released, against the session s it was given:
\* name entries through the allocator, the two arrays, the graph object and the
\* options object, each as often as given
DestroyReleased(t, h, s, names_in, names_out, graph, options) ==
    /\ CallsOn(t, "allocator->Free", "InName") = names_in
    /\ CallsOn(t, "allocator->Free", "OutName") = names_out
    /\ CallsOn(t, "free", "InArr") = One(s.input_names # NULL)
    /\ CallsOn(t, "free", "OutArr") = One(s.output_names # NULL)
    /\ Calls(t, "ReleaseSession") = graph
    /\ Calls(t, "ReleaseSessionOptions") = options
    /\ CallsOn(t, "free", "OnnxSession") = 1
    /\ \A i \in 1..Len(t) : t[i][3] = h

\* C13: onnx_destroy_session on a partially populated session releases no unset
\* field, releases every field that is set (name entries, name arrays, graph
\* object, options object), and onnx_destroy_session(NULL) does nothing.
C13_DestroyPartialSafe ==
    [][op' = "onnx_destroy_session" =>
        /\ ~crashed'
        /\ IF args'.h = NULL
           THEN trace' = <<>> /\ sess' = sess /\ live' = live
           ELSE \E s \in {sess[args'.h]} :
                  DestroyReleased(trace', args'.h, s,
                      IF s.input_names # NULL THEN SetEntries(s.in_name) ELSE 0,
                      IF s.output_names # NULL THEN SetEntries(s.out_name) ELSE 0,
                      One(s.session # NULL), One(s.options # NULL))]_vars

\* C13 amended: as C13, except that a name entry is released only when the
\* allocator is set too, and the graph and options objects only while the
\* backend API table is set (not after onnx_cleanup).
C13_DestroyPartialSafeInitialized ==
    [][op' = "onnx_destroy_session" =>
        /\ ~crashed'
        /\ IF args'.h = NULL
           THEN trace' = <<>> /\ sess' = sess /\ live' = live
           ELSE \E s \in {sess[args'.h]} :
                  DestroyReleased(trace', args'.h, s,
                      IF s.input_names # NULL /\ s.allocator # NULL
                      THEN SetEntries(s.in_name) ELSE 0,
                      IF s.output_names # NULL /\ s.allocator # NULL
                      THEN SetEntries(s.out_name) ELSE 0,
                      One(s.session # NULL /\ g_ort # NULL),
                      One(s.options # NULL /\ g_ort # NULL))]_vars

\* C13 witness: a session without name arrays, destroyed while initialized
C13_Witness ==
    /\ op = "onnx_destroy_session" /\ args.h # NULL /\ pre.g_ort # NULL
    /\ CallsOn(trace, "free", "InArr") = 0
    /\ CallsOn(trace, "free", "OutArr") = 0
    /\ Calls(trace, "ReleaseSession") = 1
    /\ Calls(trace, "ReleaseSessionOptions") = 1

\* The call just made is onnx_run_vad on a session, initialized, every backend
\* call succeeding
VadSucceeds ==
    /\ op' = "onnx_run_vad" /\ args'.h # NULL /\ pre'.g_ort # NULL
    /\ args'.faults = {}

FirstHalf(state) == [i \in 1..StateLen |-> state[i]]
SecondHalf(state) == [i \in 1..StateLen |-> state[StateLen + i]]

\* C14: for every subset of {prob_out, h_out, c_out} passed as null, a successful
\* onnx_run_vad returns 0 and writes exactly the outputs whose pointer is
\* non-null: the probability, 128 floats to h_out, 128 floats to c_out, and
\* nothing else.
C14_NullOutputsSkipped ==
    [][VadSucceeds =>
        /\ ret' = 0 /\ ~crashed'
        /\ obs'.prob_written <=> args'.prob_out # NULL
        /\ obs'.prob_written => obs'.prob = GraphProb(args'.mode)
        /\ obs'.h_written <=> args'.h_out # NULL
        /\ obs'.c_written <=> args'.c_out # NULL
        /\ \E G \in {GraphState(args'.mode, obs'.fed)} :
           \A b \in Bufs :
              mem'[b] = IF b = args'.h_out THEN FirstHalf(G)
                        ELSE IF b = args'.c_out THEN SecondHalf(G)
                        ELSE mem[b]]_vars

\* C14 witness: only c_out given, and written with the second half
C14_Witness ==
    /\ op = "onnx_run_vad" /\ ret = 0 /\ args.mode = "same"
    /\ args.prob_out = NULL /\ args.h_out = NULL /\ args.c_out = 4
    /\ ~obs.prob_written /\ ~obs.h_written /\ obs.c_written
    /\ mem[4] = mem[2] /\ mem[3][1] = 3001

\* The three states unsynchronized callers can reach
InitZeroWithoutEnv == thr.zero_noenv
EnvironmentLeaked == live[<<"Env", 0>>] > One(g_env # NULL)
ApiUsedAfterClear == thr.used_cleared

\* C15: when every call is wrapped in one exclusive lock, no onnx_init returns 0
\* while the environment handle is unset, no environment object is created and
\* left unreleasable, and no inference call uses the API table after onnx_cleanup
\* cleared it; without the lock, two threads reach these states.
C15_LockedCallsAreSafe ==
    thr.locked =>
        /\ ~InitZeroWithoutEnv
        /\ ~EnvironmentLeaked
        /\ ~ApiUsedAfterClear
        /\ ~crashed

\* C15 witness: two threads without lock, all three states reached in one run
C15_Witness ==
    /\ ~thr.locked
    /\ InitZeroWithoutEnv
    /\ EnvironmentLeaked
    /\ ApiUsedAfterClear

\* C16: copy_2d_output(src, dst, time, vocab, stride1) writes
\* dst[t*vocab + v] = src[t*stride1 + v] for all t < time and v < vocab, writes no
\* other element of dst and returns time*vocab; with stride1 = vocab the bulk
\* copy gives the dst the row-by-row copy would give, and with stride1 > vocab
\* no padding column of src is copied.
C16_Copy2DRowsWithoutPadding ==
    copycall.fn = "copy_2d_output" =>
        /\ \A t \in 0..(copycall.time - 1), v \in 0..(copycall.vocab - 1) :
              copycall.dst[t * copycall.vocab + v + 1]
                 = copycall.src[t * copycall.stride1 + v + 1]
        /\ \A i \in (copycall.time * copycall.vocab + 1)..Len(copycall.dst) :
              copycall.dst[i] = copycall.dst0[i]
        /\ copycall.ret = copycall.time * copycall.vocab
        /\ copycall.stride1 = copycall.vocab =>
              copycall.dst = Copy2DRows(copycall.src, copycall.dst0, copycall.time,
                                        copycall.vocab, copycall.stride1, 0)
        /\ copycall.stride1 > copycall.vocab =>
              \A t \in 0..(copycall.time - 1), v \in copycall.vocab..(copycall.stride1 - 1) :
                 \A i \in 1..Len(copycall.dst) :
                    copycall.dst[i] # copycall.src[t * copycall.stride1 + v + 1]

\* C16 witness: three rows of two columns taken from rows four floats apart
C16_Witness ==
    /\ copycall.fn = "copy_2d_output"
    /\ copycall.time = 3 /\ copycall.vocab = 2 /\ copycall.stride1 = 4
    /\ copycall.ret = 6
    /\ copycall.dst[5] = copycall.src[9]

\* C17: copy_strided_to_contiguous(src, dst, count, stride) sets
\* dst[i] = src[i*stride] for every i < count and writes nothing else; for
\* stride = 1 the result is that of copy_floats on the first count elements.
C17_StridedCopy ==
    copycall.fn = "copy_strided_to_contiguous" =>
        /\ \A i \in 0..(copycall.count - 1) :
              copycall.dst[i + 1] = copycall.src[i * copycall.stride + 1]
        /\ \A i \in (copycall.count + 1)..Len(copycall.dst) :
              copycall.dst[i] = copycall.dst0[i]
        /\ copycall.stride = 1 =>
              copycall.dst = copy_floats(copycall.src, copycall.dst0, copycall.count)

\* C17 witness: four elements taken three apart
C17_Witness ==
    /\ copycall.fn = "copy_strided_to_contiguous"
    /\ copycall.count = 4 /\ copycall.stride = 3
    /\ copycall.dst[4] = copycall.src[10]

\* Where in the call's trace an API is called (first and last time)
FirstAt(t, api) == CHOOSE i \in 1..Len(t) : t[i][1] = api /\ \A j \in 1..(i - 1) : t[j][1] # api
LastAt(t, api) == CHOOSE i \in 1..Len(t) : t[i][1] = api /\ \A j \in (i + 1)..Len(t) : t[j][1] # api

\* onnx_destroy_session was called on a session with names, both name arrays,
\* graph and options, and released them all
DestroyedComplete ==
    /\ op = "onnx_destroy_session" /\ args.h # NULL
    /\ CallsOn(trace, "allocator->Free", "InName") >= 1
    /\ CallsOn(trace, "allocator->Free", "OutName") >= 1
    /\ CallsOn(trace, "free", "InArr") = 1
    /\ CallsOn(trace, "free", "OutArr") = 1
    /\ Calls(trace, "ReleaseSession") = 1
    /\ Calls(trace, "ReleaseSessionOptions") = 1

\* Names go through the allocator before their array is freed, input array
\* before output array, both before the two backend objects
NamesReleasedFirst(t) ==
    /\ \A i \in 1..Len(t) :
          /\ t[i] = <<"allocator->Free", "InName", args.h>> =>
                i < FirstAt(t, "free")
          /\ t[i][1] = "allocator->Free" =>
                i < FirstAt(t, "ReleaseSession") /\ i < FirstAt(t, "ReleaseSessionOptions")
          /\ t[i] = <<"free", "InArr", args.h>> \/ t[i] = <<"free", "OutArr", args.h>> =>
                i < FirstAt(t, "ReleaseSession") /\ i < FirstAt(t, "ReleaseSessionOptions")

\* C18: onnx_destroy_session on a fully constructed session releases first the
\* input and output name arrays (each name through the runtime allocator), then
\* the session-options object, and last the graph (session) object.
C18_DestroyOrderOptionsThenGraph ==
    DestroyedComplete =>
        /\ NamesReleasedFirst(trace)
        /\ FirstAt(trace, "ReleaseSessionOptions") < FirstAt(trace, "ReleaseSession")

\* C18 amended: the names and name arrays first, then the graph (session)
\* object, then the session-options object, and last the struct itself.
C18_DestroyOrderGraphThenOptions ==
    DestroyedComplete =>
        /\ NamesReleasedFirst(trace)
        /\ FirstAt(trace, "ReleaseSession") < FirstAt(trace, "ReleaseSessionOptions")
        /\ FirstAt(trace, "ReleaseSessionOptions") < LastAt(trace, "free")
        /\ trace[LastAt(trace, "free")] = <<"free", "OnnxSession", args.h>>

\* C18 witness: a complete session destroyed
C18_Witness ==
    /\ DestroyedComplete
    /\ Len(trace) = 7
    /\ trace[5][1] = "ReleaseSession"

\* A state output buffer of the call just made is one of its state input buffers
Aliased(a) == {a.h_out, a.c_out} \cap {a.h_in, a.c_in} # {} /\ a.h_out # a.c_out

\* C19: when h_out and/or c_out are the same memory as h_in and/or c_in, the
\* state fed to the graph is the caller's pre-call (h_in, c_in) and the output
\* buffers are left holding exactly the graph's state output.
C19_AliasedStateCopySafe ==
    [][(VadSucceeds /\ Aliased(args')) =>
        /\ ret' = 0
        /\ \A i \in 1..StateLen :
              /\ obs'.fed[i] = mem[args'.h_in][i]
              /\ obs'.fed[StateLen + i] = mem[args'.c_in][i]
        /\ \E G \in {GraphState(args'.mode,
                                [i \in 1..CombinedLen |->
                                    IF i <= StateLen THEN mem[args'.h_in][i]
                                    ELSE mem[args'.c_in][i - StateLen]])} :
              /\ mem'[args'.h_out] = FirstHalf(G)
              /\ mem'[args'.c_out] = SecondHalf(G)]_vars

\* C19 witness: the state updated in place by a graph that exchanges the halves
C19_Witness ==
    /\ op = "onnx_run_vad" /\ ret = 0 /\ args.mode = "swap"
    /\ args.h_in = 1 /\ args.c_in = 2 /\ args.h_out = 1 /\ args.c_out = 2
    /\ obs.h_written /\ obs.c_written
    /\ mem[1][1] = 2001 /\ mem[2][1] = 1001

\* The session has a first input name and a first output name
HasFirstNames(s) ==
    /\ s.input_names # NULL /\ s.num_inputs >= 1 /\ s.in_name[1] # NULL
    /\ s.output_names # NULL /\ s.num_outputs >= 1 /\ s.out_name[1] # NULL

\* onnx_run_asr or onnx_run_speaker got past its guard on a session that lacks
\* a first name
RunOnNameless ==
    /\ op \in {"onnx_run_asr", "onnx_run_speaker"}
    /\ args.h # NULL /\ pre.g_ort # NULL
    /\ ~HasFirstNames(sess[args.h])

\* C20: a session returned after name introspection failed, or for a model with
\* zero inputs or outputs, is usable without memory error: onnx_run_asr and
\* onnx_run_speaker read input_names[0] and output_names[0] only when that entry
\* exists and is set; otherwise they fail with -1 without reading the table.
C20_NamelessSessionRefused ==
    RunOnNameless =>
        /\ ~crashed
        /\ ret = -1
        /\ Calls(trace, "Run") = 0

\* Positions in the trace t of the call api on the object obj
EventsAt(t, api, obj) == {i \in 1..Len(t) : t[i][1] = api /\ t[i][2] = obj}

\* C21: in onnx_run_vad the transient 256-float state buffer is never freed
\* while the state input tensor that wraps it is still live: on every exit path
\* on which that tensor was created, the tensor is released before the buffer
\* is freed.
C21_StateTensorReleasedBeforeBuffer ==
    op = "onnx_run_vad" =>
        \A r \in EventsAt(trace, "ReleaseValue", "input_tensors[1]") :
            \A f \in EventsAt(trace, "free", "combined_state") : r < f

\* The graph and options objects of handle h in the ledger l
GraphAndOptions(l, h) == <<l[<<"Session", h>>], l[<<"Options", h>>]>>

\* The releases of graph and options objects in the trace t of a destroy of h:
\* n of each, all on h
ReleasedBoth(t, h, n) ==
    /\ CallsOn(t, "ReleaseSession", "Session") = n
    /\ CallsOn(t, "ReleaseSessionOptions", "Options") = n
    /\ \A i \in 1..Len(t) :
          t[i][1] \in {"ReleaseSession", "ReleaseSessionOptions"} => t[i][3] = h

\* No call other than onnx_destroy_session on a handle touches the graph and
\* options objects of a session that was returned
OnlyDestroyReleases ==
    \A h \in Handles :
        (sess[h].alloc # "unused" /\ ~(op' = "onnx_destroy_session" /\ args'.h = h)) =>
            GraphAndOptions(live', h) = GraphAndOptions(live, h)

\* C22: in every order of onnx_init, onnx_cleanup, onnx_create_session and
\* onnx_destroy_session calls, each graph object and each session-options object
\* created by a successful onnx_create_session is released exactly once by the
\* onnx_destroy_session call on that handle, including when onnx_cleanup was
\* called between the creation and the destruction of the session.
C22_DestroyReleasesGraphAndOptions ==
    [][/\ (op' = "onnx_destroy_session" /\ args'.h # NULL) =>
              /\ ReleasedBoth(trace', args'.h, 1)
              /\ GraphAndOptions(live', args'.h) = <<0, 0>>
       /\ OnlyDestroyReleases]_vars

\* C22 amended: the graph and options objects of a returned session are released
\* by no call but onnx_destroy_session on that handle, which releases each
\* exactly once when the backend API table is set at that call, and releases
\* neither when it is not (onnx_cleanup since, no successful onnx_init after
\* it): the two objects then stay unreleased for good.
C22_DestroyReleasesWhileInitialized ==
    [][/\ (op' = "onnx_destroy_session" /\ args'.h # NULL) =>
              /\ GraphAndOptions(live, args'.h) = <<1, 1>>
              /\ ReleasedBoth(trace', args'.h, One(g_ort # NULL))
              /\ GraphAndOptions(live', args'.h) =
                     <<One(g_ort = NULL), One(g_ort = NULL)>>
       /\ OnlyDestroyReleases]_vars

\* C22 witness: a session destroyed after onnx_cleanup, its graph and options
\* objects left unreleased
C22_Witness ==
    /\ op = "onnx_destroy_session" /\ args.h # NULL
    /\ prev = "cleaned up" /\ pre.g_ort = NULL
    /\ ReleasedBoth(trace, args.h, 0)
    /\ GraphAndOptions(live, args.h) = <<1, 1>>
    /\ sess[args.h].alloc = "freed"

====
